---- MODULE Spec2Model ----
(***************************************************************************)
(* A model of the DNS-01 provider code of digicert/lego:                   *)
(*   - the Bluecat Micetro session client (providers/dns/micetro/client.go)*)
(*   - the Micetro zone resolver FindBestZoneForFQDN                       *)
(*   - the DigitalOcean and OVH providers' Present / CleanUp               *)
(*   - the OVH and Bluecat Micetro NewDNSProviderConfig validation         *)
(* Each part has its own specification over the shared variable list; the  *)
(* variables of the other parts stay at their initial values.              *)
(***************************************************************************)
EXTENDS Integers, Sequences, FiniteSets, TLC

VARIABLES
    \* ---- micetro.Client (client.go:16-25) and its callers
    sessionKey,       \* Client.sessionKey, "" while not logged in
    mu,               \* Client.mu: the caller holding it, or NoHolder
    pc,               \* per caller: position inside doRequest / login
    sentAuth,         \* per caller: session sent in the last Authorization header
    result,           \* per caller: outcome of the call that has just returned
    calls,            \* per caller: number of doRequest calls started
    loginCount,       \* login exchanges sent to the backend so far
    loginFailures,    \* login exchanges that failed so far
    pendingAtFailure, \* per caller: was blocked on mu when a login exchange failed
    \* ---- FindBestZoneForFQDN and its inputs
    zNames,           \* the zone names the backend lists (result.dnsZones[].name)
    zFqdn,            \* the fqdn argument
    zResult,          \* what FindBestZoneForFQDN returned, or NotCalled
    \* ---- NewDNSProviderConfig of the OVH and Bluecat Micetro providers
    ovhConfig,        \* the *Config handed to ovh.NewDNSProviderConfig
    ovhResult,        \* what it returned, or NotCalled
    bcConfig,         \* the *Config handed to bluecatmicetro.NewDNSProviderConfig
    bcResult,         \* what it returned, or NotCalled
    \* ---- the DigitalOcean and OVH providers and their backend
    provider,         \* which provider the instance is
    recordIDs,        \* DNSProvider.recordIDs: token -> record identifier
    recordIDsMu,      \* DNSProvider.recordIDsMu: the process holding it, or NoHolder
    backend,          \* the records the backend holds
    nextID,           \* the identifier the backend gives the next record
    proc,             \* per process: position and locals of its Present / CleanUp
    flows,            \* the processes that run challenge flows
    ops,              \* operations started so far
    \* ---- the Bluecat Micetro provider and the calls of its client
    mServer,          \* what the Micetro backend exposes and how it answers
    mOp,              \* position and locals of the running operation
    mOps              \* operations started so far

clientVars == <<sessionKey, mu, pc, sentAuth, result, calls, loginCount,
                loginFailures, pendingAtFailure>>

zoneVars == <<zNames, zFqdn, zResult>>

cfgVars == <<ovhConfig, ovhResult, bcConfig, bcResult>>

provVars == <<provider, recordIDs, recordIDsMu, backend, nextID, proc, flows,
              ops>>

micVars == <<mServer, mOp, mOps>>

vars == <<clientVars, zoneVars, cfgVars, provVars, micVars>>

-----------------------------------------------------------------------------
(* Bounds *)

NumCallers == 2
MaxCalls == 2
MaxZoneLen == 2
MaxCatalog == 2
MaxFqdnLen == 4
MaxOps == 3
MaxSeqOps == 4
MaxMicOps == 2

-----------------------------------------------------------------------------
(* micetro.Client: login and doRequest *)

Callers == 1..NumCallers

NoHolder == 0

NoAuth == "<none>"

\* Sessions the backend may hand out.
Sessions == {"s1", "s2"}

\* resp.StatusCode >= 300 is a failure (client.go:78, 144, 197, 222)
StatusMultipleChoices == 300

\* http.StatusNotFound (client.go:222)
StatusNotFound == 404

\* What the login endpoint may answer: a transport error, or a status with a
\* body that either does not decode or decodes to a (possibly empty) session.
LoginResponses ==
    [transportErr : {TRUE}, status : {200}, decodable : {TRUE}, session : {""}]
    \cup [transportErr : {FALSE},
          status : {200, 299, StatusMultipleChoices, 401},
          decodable : BOOLEAN,
          session : Sessions \cup {""}]

\* login (client.go:72-98): the error checks on the response, in order.
LoginResponseOKAnySession(resp) ==
    /\ ~resp.transportErr
    /\ ~(resp.status >= StatusMultipleChoices)
    /\ resp.decodable
LoginResponseOK(resp) ==
    /\ ~resp.transportErr
    /\ ~(resp.status >= StatusMultipleChoices)
    /\ resp.decodable
    /\ resp.session # ""

\* defer c.mu.Unlock() (client.go:47): the holder of the mutex once login,
\* entered by caller c, has returned; ok: it returned nil.
UnlockOnSuccessOnly(c, ok) == IF ok THEN NoHolder ELSE c
DeferredUnlock(c, ok) == NoHolder

\* The mutex is free (c.mu.Lock() at client.go:46 can return).
MuFreeNoLock == TRUE
MuFree == mu = NoHolder

\* "already logged in" (client.go:50-52)
AlreadyLoggedInNever == FALSE
AlreadyLoggedIn == sessionKey # ""

\* doRequest is called (client.go:105-106): the caller enters login and blocks
\* on c.mu.Lock().
Call(c) ==
    /\ UNCHANGED <<zoneVars, cfgVars, provVars, micVars>>
    /\ pc[c] = "idle"
    /\ calls[c] < MaxCalls
    /\ calls' = [calls EXCEPT ![c] = @ + 1]
    /\ pc' = [pc EXCEPT ![c] = "lock"]
    /\ pendingAtFailure' = [pendingAtFailure EXCEPT ![c] = FALSE]
    /\ result' = [result EXCEPT ![c] = "none"]
    /\ UNCHANGED <<sessionKey, mu, sentAuth, loginCount, loginFailures>>

\* login acquires the mutex and finds a cached session (client.go:46-52): it
\* returns nil and the deferred Unlock releases the mutex.
LoginCached(c) ==
    /\ UNCHANGED <<zoneVars, cfgVars, provVars, micVars>>
    /\ pc[c] = "lock"
    /\ MuFree
    /\ AlreadyLoggedIn
    /\ pc' = [pc EXCEPT ![c] = "send"]
    /\ UNCHANGED <<sessionKey, mu, sentAuth, result, calls, loginCount,
                   loginFailures, pendingAtFailure>>

\* login acquires the mutex, finds no session and sends the login exchange
\* (client.go:46-72); the mutex stays held while the exchange is in flight.
LoginSend(c) ==
    /\ UNCHANGED <<zoneVars, cfgVars, provVars, micVars>>
    /\ pc[c] = "lock"
    /\ MuFree
    /\ ~AlreadyLoggedIn
    /\ mu' = c
    /\ pc' = [pc EXCEPT ![c] = "exchange"]
    /\ loginCount' = loginCount + 1
    /\ UNCHANGED <<sessionKey, sentAuth, result, calls, loginFailures,
                   pendingAtFailure>>

\* The login exchange completes (client.go:72-98); every return path runs the
\* deferred c.mu.Unlock() (client.go:47).
LoginReceive(c) ==
    /\ UNCHANGED <<zoneVars, cfgVars, provVars, micVars>>
    /\ pc[c] = "exchange"
    /\ \E resp \in LoginResponses :
         IF LoginResponseOK(resp)
         THEN /\ sessionKey' = resp.session
              /\ pc' = [pc EXCEPT ![c] = "send"]
              /\ mu' = DeferredUnlock(c, TRUE)
              /\ UNCHANGED <<result, loginFailures, pendingAtFailure>>
         ELSE /\ pc' = [pc EXCEPT ![c] = "ret"]
              /\ result' = [result EXCEPT ![c] = "loginError"]
              /\ loginFailures' = loginFailures + 1
              /\ pendingAtFailure' =
                    [d \in Callers |-> pendingAtFailure[d] \/ pc[d] = "lock"]
              /\ mu' = DeferredUnlock(c, FALSE)
              /\ UNCHANGED sessionKey
    /\ UNCHANGED <<sentAuth, calls, loginCount>>

\* doRequest builds the request with "Bearer "+c.sessionKey and sends it
\* (client.go:110-118).
SendRequest(c) ==
    /\ UNCHANGED <<zoneVars, cfgVars, provVars, micVars>>
    /\ pc[c] = "send"
    /\ sentAuth' = [sentAuth EXCEPT ![c] = sessionKey]
    /\ pc' = [pc EXCEPT ![c] = "await"]
    /\ UNCHANGED <<sessionKey, mu, result, calls, loginCount, loginFailures,
                   pendingAtFailure>>

\* The backend answers the authenticated request (client.go:118), with any
\* status or a transport error; doRequest returns it unchanged.
ReceiveResponse(c) ==
    /\ UNCHANGED <<zoneVars, cfgVars, provVars, micVars>>
    /\ pc[c] = "await"
    /\ \E r \in {"transportError", "status2xx", "status401", "status404", "status5xx"} :
         result' = [result EXCEPT ![c] = r]
    /\ pc' = [pc EXCEPT ![c] = "ret"]
    /\ UNCHANGED <<sessionKey, mu, sentAuth, calls, loginCount, loginFailures,
                   pendingAtFailure>>

\* The caller of doRequest takes the result; it may call again.
Return(c) ==
    /\ UNCHANGED <<zoneVars, cfgVars, provVars, micVars>>
    /\ pc[c] = "ret"
    /\ pc' = [pc EXCEPT ![c] = "idle"]
    /\ UNCHANGED <<sessionKey, mu, sentAuth, result, calls, loginCount,
                   loginFailures, pendingAtFailure>>

\* NewClient (client.go:27-39): no session, mutex free.
InitClient ==
    /\ sessionKey = ""
    /\ mu = NoHolder
    /\ pc = [c \in Callers |-> "idle"]
    /\ sentAuth = [c \in Callers |-> NoAuth]
    /\ result = [c \in Callers |-> "none"]
    /\ calls = [c \in Callers |-> 0]
    /\ loginCount = 0
    /\ loginFailures = 0
    /\ pendingAtFailure = [c \in Callers |-> FALSE]

NextClient ==
    \E c \in Callers :
        \/ Call(c)
        \/ LoginCached(c)
        \/ LoginSend(c)
        \/ LoginReceive(c)
        \/ SendRequest(c)
        \/ ReceiveResponse(c)
        \/ Return(c)


-----------------------------------------------------------------------------
(* Strings are sequences of one-character strings, so that suffix tests and  *)
(* trimming are computed, not assumed.                                        *)

EmptyStr == <<>>

Dot == <<".">>

\* The apex sentinel "@" (part_001:20)
Apex == <<"@">>

\* strings.HasSuffix(s, suffix)
HasSuffix(s, suffix) ==
    /\ Len(suffix) <= Len(s)
    /\ SubSeq(s, Len(s) - Len(suffix) + 1, Len(s)) = suffix

\* strings.TrimSuffix(s, suffix)
TrimSuffix(s, suffix) ==
    IF HasSuffix(s, suffix) THEN SubSeq(s, 1, Len(s) - Len(suffix)) ELSE s

\* listZones (client.go:154-159): every listed name loses one trailing dot.
ListedZones(names) == [i \in 1..Len(names) |-> TrimSuffix(names[i], Dot)]

\* The less function handed to sort.SliceStable (part_001:13-15).
SortLessShortestFirst(a, b) == Len(a) < Len(b)
SortLess(a, b) == Len(a) > Len(b)

\* Position of x in an already sorted sequence: before the first element that
\* x is less than, so after every element it is not less than (stability).
RECURSIVE InsertStable(_, _)
InsertStable(x, sorted) ==
    IF sorted = <<>> THEN <<x>>
    ELSE IF SortLess(x, Head(sorted)) THEN <<x>> \o sorted
    ELSE <<Head(sorted)>> \o InsertStable(x, Tail(sorted))

\* sort.SliceStable(zones, less) (part_001:13-15)
RECURSIVE SortSliceStable(_)
SortSliceStable(zones) ==
    IF zones = <<>> THEN <<>>
    ELSE InsertStable(zones[Len(zones)], SortSliceStable(SubSeq(zones, 1, Len(zones) - 1)))

\* The relative label for a matched zone z (part_001:18-21).
RelativeLabelNoSentinel(fqdn, z) == TrimSuffix(fqdn, Dot \o z)
RelativeLabel(fqdn, z) ==
    LET rel == TrimSuffix(fqdn, Dot \o z)
    IN  IF rel = EmptyStr THEN Apex ELSE rel

\* The loop over the sorted zones (part_001:16-24): the first zone that is a
\* suffix of fqdn; <<"", "">> when there is none (part_001:26).
RECURSIVE FirstMatch(_, _)
FirstMatch(zones, fqdn) ==
    IF zones = <<>> THEN <<EmptyStr, EmptyStr>>
    ELSE IF HasSuffix(fqdn, Head(zones))
         THEN <<Head(zones), RelativeLabel(fqdn, Head(zones))>>
         ELSE FirstMatch(Tail(zones), fqdn)

\* FindBestZoneForFQDN (part_001:9-27); listErr: listZones returned an error.
FindBestZoneForFQDN(listErr, names, fqdn) ==
    LET f == TrimSuffix(fqdn, Dot)
        zones == ListedZones(names)
    IN  IF ~listErr /\ Len(zones) > 0
        THEN FirstMatch(SortSliceStable(zones), f)
        ELSE <<EmptyStr, EmptyStr>>

Chars == {"a", "."}

StringsUpTo(n) == UNION {[1..k -> Chars] : k \in 0..n}

SeqsUpTo(S, n) == UNION {[1..k -> S] : k \in 0..n}

ExampleCom == <<"e", "x", "a", "m", "p", "l", "e", ".", "c", "o", "m">>
DevExampleCom == <<"d", "e", "v", ".">> \o ExampleCom
XDevExampleCom == <<"x", ".">> \o DevExampleCom

\* The inputs of the spec's example: both listing orders, the zone names as
\* the backend lists them (with the root dot) or bare, the FQDNs with or
\* without the root dot.
ExampleInputs ==
    {<<cat, f>> : cat \in {<<ExampleCom, DevExampleCom>>,
                           <<DevExampleCom, ExampleCom>>,
                           <<ExampleCom \o Dot, DevExampleCom \o Dot>>,
                           <<ExampleCom>>},
                  f \in {XDevExampleCom, XDevExampleCom \o Dot,
                         ExampleCom, ExampleCom \o Dot,
                         DevExampleCom \o Dot}}

NotCalled == [called |-> FALSE]

InitZone ==
    /\ \E inp \in (SeqsUpTo(StringsUpTo(MaxZoneLen), MaxCatalog) \X StringsUpTo(MaxFqdnLen))
                   \cup ExampleInputs :
         /\ zNames = inp[1]
         /\ zFqdn = inp[2]
    /\ zResult = NotCalled

\* One call of FindBestZoneForFQDN; the zone listing succeeds or fails.
Resolve ==
    /\ UNCHANGED <<clientVars, cfgVars, provVars, micVars>>
    /\ zResult = NotCalled
    /\ \E listErr \in BOOLEAN :
         LET r == FindBestZoneForFQDN(listErr, zNames, zFqdn)
         IN  zResult' = [called |-> TRUE, listErr |-> listErr,
                         zone |-> r[1], rel |-> r[2]]
    /\ UNCHANGED <<zNames, zFqdn>>

-----------------------------------------------------------------------------
(* Provider construction: ovh.NewDNSProviderConfig and                       *)
(* bluecatmicetro.NewDNSProviderConfig                                        *)

\* A string field is either empty or set; the code only tests emptiness.
StringValues == {"", "x"}

\* *OAuth2Config (ovh.go:63-67): nil or a pair of client id and secret.
OAuth2Configs ==
    [isNil : {TRUE}, ClientID : {""}, ClientSecret : {""}]
    \cup [isNil : {FALSE}, ClientID : StringValues, ClientSecret : StringValues]

\* *Config (ovh.go:69-85): nil or the authentication fields.
OvhConfigs ==
    [isNil : {TRUE}, ApplicationKey : {""}, ApplicationSecret : {""},
     ConsumerKey : {""}, OAuth2Config : {CHOOSE o \in OAuth2Configs : o.isNil},
     AccessToken : {""}]
    \cup [isNil : {FALSE}, ApplicationKey : StringValues,
          ApplicationSecret : StringValues, ConsumerKey : StringValues,
          OAuth2Config : OAuth2Configs, AccessToken : StringValues]

\* Config.hasAppKeyAuth (ovh.go:99-101)
hasAppKeyAuthKeyOnly(c) == c.ApplicationKey # ""
hasAppKeyAuth(c) ==
    c.ApplicationKey # "" \/ c.ApplicationSecret # "" \/ c.ConsumerKey # ""

ErrOvhNil == "ovh: the configuration of the DNS provider is nil"
ErrOvhAll == "ovh: can't use multiple authentication systems (ApplicationKey, OAuth2, Access Token)"
ErrOvhOAuthToken == "ovh: can't use multiple authentication systems (OAuth2, Access Token)"
ErrOvhKeyOAuth == "ovh: can't use multiple authentication systems (ApplicationKey, OAuth2)"
ErrOvhKeyToken == "ovh: can't use multiple authentication systems (ApplicationKey, Access Token)"
ErrOvhClient == "ovh: new client"

\* ovh.NewDNSProviderConfig (ovh.go:141-172); clientErr: newClient failed.
OvhNewDNSProviderConfig(config, clientErr) ==
    IF config.isNil
    THEN [err |-> ErrOvhNil, provider |-> FALSE]
    ELSE IF ~config.OAuth2Config.isNil /\ hasAppKeyAuth(config) /\ config.AccessToken # ""
    THEN [err |-> ErrOvhAll, provider |-> FALSE]
    ELSE IF ~config.OAuth2Config.isNil /\ config.AccessToken # ""
    THEN [err |-> ErrOvhOAuthToken, provider |-> FALSE]
    ELSE IF ~config.OAuth2Config.isNil /\ hasAppKeyAuth(config)
    THEN [err |-> ErrOvhKeyOAuth, provider |-> FALSE]
    ELSE IF hasAppKeyAuth(config) /\ config.AccessToken # ""
    THEN [err |-> ErrOvhKeyToken, provider |-> FALSE]
    ELSE IF clientErr
    THEN [err |-> ErrOvhClient, provider |-> FALSE]
    ELSE [err |-> "", provider |-> TRUE]

\* Config (dns.go:22-29)
BcConfigs ==
    [Endpoint : StringValues, APIKey : StringValues,
     Username : StringValues, Password : StringValues]

ErrBcEndpoint == "bluecatmicetro: BLUECAT_MICETRO_ENDPOINT must be set"
ErrBcCredentials == "bluecatmicetro: provide either BLUECAT_MICETRO_API_KEY or BLUECAT_MICETRO_USERNAME/BLUECAT_MICETRO_PASSWORD"

\* bluecatmicetro.NewDNSProviderConfig (dns.go:52-66)
BluecatNewDNSProviderConfig(cfg) ==
    IF cfg.Endpoint = ""
    THEN [err |-> ErrBcEndpoint, provider |-> FALSE]
    ELSE IF cfg.APIKey = "" /\ (cfg.Username = "" \/ cfg.Password = "")
    THEN [err |-> ErrBcCredentials, provider |-> FALSE]
    ELSE [err |-> "", provider |-> TRUE]

InitConfig ==
    /\ ovhConfig \in OvhConfigs
    /\ bcConfig \in BcConfigs
    /\ ovhResult = NotCalled
    /\ bcResult = NotCalled

\* ovh.NewDNSProviderConfig is called; newClient succeeds or fails.
OvhConstruct ==
    /\ UNCHANGED <<clientVars, zoneVars, provVars, micVars>>
    /\ ovhResult = NotCalled
    /\ \E clientErr \in BOOLEAN :
         LET r == OvhNewDNSProviderConfig(ovhConfig, clientErr)
         IN  ovhResult' = [called |-> TRUE, err |-> r.err, provider |-> r.provider]
    /\ UNCHANGED <<ovhConfig, bcConfig, bcResult>>

\* bluecatmicetro.NewDNSProviderConfig is called.
BluecatConstruct ==
    /\ UNCHANGED <<clientVars, zoneVars, provVars, micVars>>
    /\ bcResult = NotCalled
    /\ LET r == BluecatNewDNSProviderConfig(bcConfig)
       IN  bcResult' = [called |-> TRUE, err |-> r.err, provider |-> r.provider]
    /\ UNCHANGED <<ovhConfig, ovhResult, bcConfig>>

IdleConfig ==
    /\ ovhConfig = CHOOSE c \in OvhConfigs : c.isNil
    /\ bcConfig = [Endpoint |-> "", APIKey |-> "", Username |-> "", Password |-> ""]
    /\ ovhResult = NotCalled
    /\ bcResult = NotCalled

-----------------------------------------------------------------------------
(* The DigitalOcean and OVH providers: Present and CleanUp run by concurrent *)
(* challenge flows against one backend.                                      *)

\* The processes; the challenge flows run on those in flows, one alone or two
\* concurrently.
Procs == {1, 2}

\* The operations a run may start.
OpsBound == IF flows = Procs THEN MaxOps ELSE MaxSeqOps

DigitalOcean == "digitalocean"
Ovh == "ovh"

\* Challenge tokens: a domain and its wildcard, which share the challenge
\* name.
Tokens == {"tA", "tB"}

\* dns01.GetChallengeInfo and dns01.FindZoneByFqdn (part_000:122-124,
\* ovh.go:176-185): the challenge name of a token, as sub-domain and zone.
Challenge(t) == [sub |-> "_acme-challenge", zone |-> "z1"]

\* Records the backend holds before any Present: an A record at the
\* challenge name, a TXT record of another name in the zone and a TXT record
\* of the same sub-domain in another zone.
SeedRecords ==
    {[id |-> 1, type |-> "A", sub |-> "_acme-challenge", zone |-> "z1"],
     [id |-> 2, type |-> "TXT", sub |-> "www", zone |-> "z1"],
     [id |-> 3, type |-> "TXT", sub |-> "_acme-challenge", zone |-> "z2"]}

\* A TXT record at the challenge name left behind by an earlier process.
OrphanRecord == [id |-> 4, type |-> "TXT", sub |-> "_acme-challenge", zone |-> "z1"]

NoOp == [kind |-> "none", token |-> "none", ok |-> FALSE]

IdleProc ==
    [pc |-> "idle", kind |-> "none", token |-> "none", respID |-> 0,
     recordID |-> 0, ok |-> FALSE, ids |-> <<>>, records |-> <<>>, idx |-> 0,
     err |-> FALSE, faulted |-> FALSE, tracked |-> FALSE,
     deleted |-> {}, trackedDel |-> 0, scanDel |-> 0, refreshCalls |-> 0,
     prev |-> NoOp]

\* Any backend call may fail (transport error, non-success status).
FaultChoices == BOOLEAN

\* The records of a set as a sequence in identifier order.
RECURSIVE SortedByID(_)
SortedByID(S) ==
    IF S = {} THEN <<>>
    ELSE LET r == CHOOSE x \in S : \A y \in S : x.id <= y.id
         IN  <<r>> \o SortedByID(S \ {r})

ZoneRecords(zone) == {r \in backend : r.zone = zone}

\* d.recordIDs[token] = id (part_000:137, ovh.go:210)
MapPutAlone(m, t, id) == [x \in {t} |-> id]
MapPut(m, t, id) == [x \in DOMAIN m \cup {t} |-> IF x = t THEN id ELSE m[x]]

\* delete(d.recordIDs, token) (part_000:168)
MapDeleteKeeps(m, t) == m
MapDelete(m, t) == [x \in DOMAIN m \ {t} |-> m[x]]

\* The filter of the fallback scan of the DigitalOcean CleanUp
\* (part_000:178): a TXT record whose name is the challenge FQDN.
DoMatchesAnyType(r, chal) == r.sub = chal.sub /\ r.zone = chal.zone
DoMatches(r, chal) == r.type = "TXT" /\ r.sub = chal.sub /\ r.zone = chal.zone

\* The filter of the OVH CleanUp loop (ovh.go:243).
OvhMatches(r, chal) == r.sub = chal.sub /\ r.type = "TXT"

Matches(r, chal) ==
    IF provider = DigitalOcean THEN DoMatches(r, chal) ELSE OvhMatches(r, chal)

\* The index of the first record at or after from that the loop deletes, 0
\* when there is none.
NextMatch(records, from, chal) ==
    LET I == {i \in from..Len(records) : Matches(records[i], chal)}
    IN  IF I = {} THEN 0 ELSE CHOOSE i \in I : \A j \in I : i <= j

\* go-ovh's Client.Delete and Client.Get return an error for a 404 answer,
\* and CleanUp returns every such error (ovh.go:249-252, 292-295).
OvhNotFoundIsError == TRUE

\* internal.Client.RemoveTxtRecord of the DigitalOcean provider: a delete of
\* an absent record counts as success.
DoNotFoundIsError == FALSE

NotFoundIsError ==
    IF provider = DigitalOcean THEN DoNotFoundIsError ELSE OvhNotFoundIsError

\* Present or CleanUp is entered: the challenge name and its zone are
\* derived; the zone lookup may fail, which ends the call with an error.
Start(p, kind, t, nextpc) ==
    /\ proc[p].pc = "idle"
    /\ p \in flows
    /\ ops < OpsBound
    /\ ops' = ops + 1
    /\ \E fault \in FaultChoices :
         /\ proc' = [q \in Procs |->
              IF q = p
              THEN [IdleProc EXCEPT !.pc = IF fault THEN "ret" ELSE nextpc,
                                    !.kind = kind, !.token = t,
                                    !.err = fault, !.faulted = fault,
                                    !.tracked = t \in DOMAIN recordIDs,
                                    !.prev = proc[p].prev]
              ELSE proc[q]]
    /\ UNCHANGED <<provider, recordIDs, recordIDsMu, backend, nextID, flows>>

\* A step of process p alone: its record becomes r.
Step(p, r) == proc' = [proc EXCEPT ![p] = r]

\* The call returns: the locals of the listing are dead.
Ended(r) == [r EXCEPT !.pc = "ret", !.ids = <<>>, !.records = <<>>, !.idx = 0]

\* Record r at position pos; "ret" ends the call.
At(r, pos) == IF pos = "ret" THEN Ended(r) ELSE [r EXCEPT !.pc = pos]

\* The call of p ends with an error; fault: a backend call failed.
Failed(p, fault) == Ended([proc[p] EXCEPT !.err = TRUE, !.faulted = @ \/ fault])

\* The backend creates a TXT record for the challenge of p and returns its
\* identifier.
CreateRecord(p, nextpc) ==
    LET chal == Challenge(proc[p].token)
    IN  /\ backend' = backend \cup
              {[id |-> nextID, type |-> "TXT", sub |-> chal.sub, zone |-> chal.zone]}
        /\ nextID' = nextID + 1
        /\ Step(p, [proc[p] EXCEPT !.pc = nextpc, !.respID = nextID])

\* d.recordIDsMu.Unlock() right after the map access (part_000:138, 155,
\* 169; ovh.go:211): the holder of the mutex after it.
UnlockAtReturn(p) == p
Unlock(p) == NoHolder

\* d.recordIDsMu.Lock() (part_000:136, 153, 167; ovh.go:209)
LockRecordIDs(p) ==
    /\ UNCHANGED <<clientVars, zoneVars, cfgVars, micVars>>
    /\ proc[p].pc \in {"lockStore", "lockRead", "lockDelete"}
    /\ recordIDsMu = NoHolder
    /\ recordIDsMu' = p
    /\ Step(p, [proc[p] EXCEPT !.pc = CASE @ = "lockStore" -> "store"
                                         [] @ = "lockRead" -> "read"
                                         [] OTHER -> "delete"])
    /\ UNCHANGED <<provider, recordIDs, backend, nextID, flows, ops>>

\* The map write of Present and the Unlock after it (part_000:137-140,
\* ovh.go:210-213); Present returns nil.
StoreRecordID(p) ==
    /\ UNCHANGED <<clientVars, zoneVars, cfgVars, micVars>>
    /\ proc[p].pc = "store"
    /\ recordIDsMu = p
    /\ recordIDs' = MapPut(recordIDs, proc[p].token, proc[p].respID)
    /\ recordIDsMu' = Unlock(p)
    /\ Step(p, Ended(proc[p]))
    /\ UNCHANGED <<provider, backend, nextID, flows, ops>>

\* The caller takes the result of Present or CleanUp.
ProviderReturn(p) ==
    /\ UNCHANGED <<clientVars, zoneVars, cfgVars, micVars>>
    /\ proc[p].pc = "ret"
    /\ Step(p, [IdleProc EXCEPT !.prev = [kind |-> proc[p].kind,
                                          token |-> proc[p].token,
                                          ok |-> ~proc[p].err]])
    /\ UNCHANGED <<provider, recordIDs, recordIDsMu, backend, nextID, flows, ops>>

(* ---- DigitalOcean ---- *)

\* Present up to the zone lookup (part_000:121-129)
DoPresentStart(p, t) ==
    /\ UNCHANGED <<clientVars, zoneVars, cfgVars, micVars>>
    /\ provider = DigitalOcean
    /\ Start(p, "Present", t, "add")

\* d.client.AddTxtRecord (part_000:131-134)
DoAddTxtRecord(p) ==
    /\ UNCHANGED <<clientVars, zoneVars, cfgVars, micVars>>
    /\ provider = DigitalOcean
    /\ proc[p].pc = "add"
    /\ \E fault \in FaultChoices :
         /\ IF fault
            THEN /\ Step(p, Failed(p, TRUE))
                 /\ UNCHANGED <<backend, nextID>>
            ELSE CreateRecord(p, "lockStore")
    /\ UNCHANGED <<provider, recordIDs, recordIDsMu, flows, ops>>

\* CleanUp up to the zone lookup (part_000:144-151)
DoCleanUpStart(p, t) ==
    /\ UNCHANGED <<clientVars, zoneVars, cfgVars, micVars>>
    /\ provider = DigitalOcean
    /\ Start(p, "CleanUp", t, "lockRead")

\* recordID, ok := d.recordIDs[token], and the Unlock (part_000:154-157)
DoReadRecordID(p) ==
    /\ UNCHANGED <<clientVars, zoneVars, cfgVars, micVars>>
    /\ provider = DigitalOcean
    /\ proc[p].pc = "read"
    /\ recordIDsMu = p
    /\ recordIDsMu' = Unlock(p)
    /\ LET t == proc[p].token
       IN  IF t \in DOMAIN recordIDs
           THEN Step(p, [proc[p] EXCEPT !.pc = "remove", !.ok = TRUE,
                                        !.recordID = recordIDs[t]])
           ELSE Step(p, [proc[p] EXCEPT !.pc = "list", !.ok = FALSE])
    /\ UNCHANGED <<provider, recordIDs, backend, nextID, flows, ops>>

\* The backend deletes record id for p, as a tracked delete or as a delete
\* of the scan; r is the record of p after a successful delete.
DeleteRecord(p, id, r) ==
    \E fault \in FaultChoices :
        /\ LET hit == {x \in backend : x.id = id}
           IN  IF fault \/ (hit = {} /\ NotFoundIsError)
               THEN /\ Step(p, Failed(p, fault))
                    /\ UNCHANGED backend
               ELSE /\ backend' = backend \ hit
                    /\ Step(p, [r EXCEPT !.deleted = @ \cup hit])

\* d.client.RemoveTxtRecord for the tracked identifier (part_000:157-164)
DoRemoveTracked(p) ==
    /\ UNCHANGED <<clientVars, zoneVars, cfgVars, micVars>>
    /\ provider = DigitalOcean
    /\ proc[p].pc = "remove"
    /\ DeleteRecord(p, proc[p].recordID,
                    [proc[p] EXCEPT !.pc = "lockDelete", !.trackedDel = @ + 1])
    /\ UNCHANGED <<provider, recordIDs, recordIDsMu, nextID, flows, ops>>

\* delete(d.recordIDs, token) and the Unlock (part_000:167-170)
DoDeleteRecordID(p) ==
    /\ UNCHANGED <<clientVars, zoneVars, cfgVars, micVars>>
    /\ provider = DigitalOcean
    /\ proc[p].pc = "delete"
    /\ recordIDsMu = p
    /\ recordIDs' = MapDelete(recordIDs, proc[p].token)
    /\ recordIDsMu' = Unlock(p)
    /\ Step(p, [proc[p] EXCEPT !.pc = "list"])
    /\ UNCHANGED <<provider, backend, nextID, flows, ops>>

\* d.client.ListRecords (part_000:172-175); with nothing to delete the loop
\* (part_000:177-188) ends at once and CleanUp returns nil.
DoListRecords(p) ==
    /\ UNCHANGED <<clientVars, zoneVars, cfgVars, micVars>>
    /\ provider = DigitalOcean
    /\ proc[p].pc = "list"
    /\ \E fault \in FaultChoices :
         /\ IF fault
            THEN Step(p, Failed(p, TRUE))
            ELSE LET chal == Challenge(proc[p].token)
                     recs == SortedByID(ZoneRecords(chal.zone))
                     i == NextMatch(recs, 1, chal)
                 IN  Step(p, At([proc[p] EXCEPT !.records = recs, !.idx = i],
                                IF i = 0 THEN "ret" ELSE "loop"))
    /\ UNCHANGED <<provider, recordIDs, recordIDsMu, backend, nextID, flows, ops>>

\* One delete of the fallback scan (part_000:177-188); after the last
\* matching record CleanUp returns nil (part_000:189).
DoScanDelete(p) ==
    /\ UNCHANGED <<clientVars, zoneVars, cfgVars, micVars>>
    /\ provider = DigitalOcean
    /\ proc[p].pc = "loop"
    /\ LET chal == Challenge(proc[p].token)
           i == NextMatch(proc[p].records, proc[p].idx + 1, chal)
       IN  DeleteRecord(p, proc[p].records[proc[p].idx].id,
                        At([proc[p] EXCEPT !.scanDel = @ + 1, !.idx = i],
                           IF i = 0 THEN "ret" ELSE "loop"))
    /\ UNCHANGED <<provider, recordIDs, recordIDsMu, nextID, flows, ops>>

(* ---- OVH ---- *)

\* Present up to the sub-domain extraction (ovh.go:175-191)
OvhPresentStart(p, t) ==
    /\ UNCHANGED <<clientVars, zoneVars, cfgVars, micVars>>
    /\ provider = Ovh
    /\ Start(p, "Present", t, "post")

\* d.client.Post of the record (ovh.go:193-199)
OvhPostRecord(p) ==
    /\ UNCHANGED <<clientVars, zoneVars, cfgVars, micVars>>
    /\ provider = Ovh
    /\ proc[p].pc = "post"
    /\ \E fault \in FaultChoices :
         /\ IF fault
            THEN /\ Step(p, Failed(p, TRUE))
                 /\ UNCHANGED <<backend, nextID>>
            ELSE CreateRecord(p, "refresh")
    /\ UNCHANGED <<provider, recordIDs, recordIDsMu, flows, ops>>

\* Where the call goes once the zone refresh has succeeded: Present to the
\* map write (ovh.go:209), CleanUp to its return (ovh.go:270).
OvhAfterRefresh(p) == IF proc[p].kind = "Present" THEN "lockStore" ELSE "ret"

\* The zone refresh failed: the call returns the error (ovh.go:205-207,
\* 265-267).
OvhRefreshFailedIgnored(p) ==
    At([proc[p] EXCEPT !.faulted = TRUE, !.refreshCalls = @ + 1], OvhAfterRefresh(p))
OvhRefreshFailed(p) ==
    Ended([proc[p] EXCEPT !.err = TRUE, !.faulted = TRUE, !.refreshCalls = @ + 1])

\* d.client.Post of the zone refresh (ovh.go:201-207, 261-270): after it
\* Present goes on to the map write, CleanUp returns nil.
OvhPostRefresh(p) ==
    /\ UNCHANGED <<clientVars, zoneVars, cfgVars, micVars>>
    /\ provider = Ovh
    /\ proc[p].pc = "refresh"
    /\ \E fault \in FaultChoices :
         /\ IF fault
            THEN Step(p, OvhRefreshFailed(p))
            ELSE Step(p, At([proc[p] EXCEPT !.refreshCalls = @ + 1],
                            OvhAfterRefresh(p)))
    /\ UNCHANGED <<provider, recordIDs, recordIDsMu, backend, nextID, flows, ops>>

\* CleanUp up to the sub-domain extraction (ovh.go:217-230)
OvhCleanUpStart(p, t) ==
    /\ UNCHANGED <<clientVars, zoneVars, cfgVars, micVars>>
    /\ provider = Ovh
    /\ Start(p, "CleanUp", t, "listIds")

\* Where CleanUp goes once listTXTRecords has returned recs: to the first
\* delete of the loop (ovh.go:242-257), or on to the refresh.
OvhAfterListing(p, recs) ==
    LET i == NextMatch(recs, 1, Challenge(proc[p].token))
    IN  [proc[p] EXCEPT !.ids = <<>>, !.records = IF i = 0 THEN <<>> ELSE recs,
                        !.idx = i, !.pc = IF i = 0 THEN "refresh" ELSE "loop"]

\* listTXTRecords: the Get of the record identifiers (ovh.go:276-285)
OvhGetRecordIDs(p) ==
    /\ UNCHANGED <<clientVars, zoneVars, cfgVars, micVars>>
    /\ provider = Ovh
    /\ proc[p].pc = "listIds"
    /\ \E fault \in FaultChoices :
         /\ IF fault
            THEN Step(p, Failed(p, TRUE))
            ELSE LET recs == SortedByID(ZoneRecords(Challenge(proc[p].token).zone))
                     ids == [i \in 1..Len(recs) |-> recs[i].id]
                 IN  IF ids = <<>>
                     THEN Step(p, OvhAfterListing(p, <<>>))
                     ELSE Step(p, [proc[p] EXCEPT !.ids = ids, !.idx = 1,
                                                  !.pc = "getRecord"])
    /\ UNCHANGED <<provider, recordIDs, recordIDsMu, backend, nextID, flows, ops>>

\* listTXTRecords: the Get of one record's details (ovh.go:288-301); a
\* record that is gone by now makes the listing, and CleanUp, fail.
OvhGetRecord(p) ==
    /\ UNCHANGED <<clientVars, zoneVars, cfgVars, micVars>>
    /\ provider = Ovh
    /\ proc[p].pc = "getRecord"
    /\ \E fault \in FaultChoices :
         /\ LET hit == {x \in backend : x.id = proc[p].ids[proc[p].idx]}
            IN  IF fault \/ (hit = {} /\ OvhNotFoundIsError)
                THEN Step(p, Failed(p, fault))
                ELSE LET txt == {x \in hit : x.type = "TXT"}
                         recs == proc[p].records \o SortedByID(txt)
                     IN  IF proc[p].idx = Len(proc[p].ids)
                         THEN Step(p, OvhAfterListing(p, recs))
                         ELSE Step(p, [proc[p] EXCEPT !.records = recs, !.idx = @ + 1])
    /\ UNCHANGED <<provider, recordIDs, recordIDsMu, backend, nextID, flows, ops>>

\* One d.client.Delete of the loop (ovh.go:242-257)
OvhScanDelete(p) ==
    /\ UNCHANGED <<clientVars, zoneVars, cfgVars, micVars>>
    /\ provider = Ovh
    /\ proc[p].pc = "loop"
    /\ LET chal == Challenge(proc[p].token)
           i == NextMatch(proc[p].records, proc[p].idx + 1, chal)
       IN  DeleteRecord(p, proc[p].records[proc[p].idx].id,
                        [proc[p] EXCEPT !.scanDel = @ + 1, !.idx = i,
                                        !.records = IF i = 0 THEN <<>> ELSE @,
                                        !.pc = IF i = 0 THEN "refresh" ELSE "loop"])
    /\ UNCHANGED <<provider, recordIDs, recordIDsMu, nextID, flows, ops>>

\* NewDNSProviderConfig (part_000:107-111, ovh.go:167-171): an empty map;
\* the backend may hold a record an earlier process left behind.
InitProviders ==
    /\ provider \in {DigitalOcean, Ovh}
    /\ recordIDs = <<>>
    /\ recordIDsMu = NoHolder
    /\ backend \in {SeedRecords, SeedRecords \cup {OrphanRecord}}
    /\ nextID = OrphanRecord.id + 1
    /\ proc = [p \in Procs |-> IdleProc]
    /\ ops = 0

IdleProviders ==
    /\ provider = "none"
    /\ recordIDs = <<>>
    /\ recordIDsMu = NoHolder
    /\ backend = {}
    /\ nextID = 0
    /\ proc = [p \in Procs |-> IdleProc]
    /\ flows = {}
    /\ ops = 0

NextProviders ==
    \E p \in Procs :
        \/ \E t \in Tokens : DoPresentStart(p, t)
        \/ \E t \in Tokens : DoCleanUpStart(p, t)
        \/ \E t \in Tokens : OvhPresentStart(p, t)
        \/ \E t \in Tokens : OvhCleanUpStart(p, t)
        \/ LockRecordIDs(p)
        \/ StoreRecordID(p)
        \/ ProviderReturn(p)
        \/ DoAddTxtRecord(p)
        \/ DoReadRecordID(p)
        \/ DoRemoveTracked(p)
        \/ DoDeleteRecordID(p)
        \/ DoListRecords(p)
        \/ DoScanDelete(p)
        \/ OvhPostRecord(p)
        \/ OvhPostRefresh(p)
        \/ OvhGetRecordIDs(p)
        \/ OvhGetRecord(p)
        \/ OvhScanDelete(p)

IdleZone ==
    /\ zNames = <<>>
    /\ zFqdn = EmptyStr
    /\ zResult = NotCalled

IdleClient ==
    /\ sessionKey = ""
    /\ mu = NoHolder
    /\ pc = [c \in Callers |-> "done"]
    /\ sentAuth = [c \in Callers |-> NoAuth]
    /\ result = [c \in Callers |-> "none"]
    /\ calls = [c \in Callers |-> 0]
    /\ loginCount = 0
    /\ loginFailures = 0
    /\ pendingAtFailure = [c \in Callers |-> FALSE]

-----------------------------------------------------------------------------
(* The Bluecat Micetro provider: Present and CleanUp (bluecatmicetro/dns.go) *)
(* and the calls of its client (micetro/client.go), one after the other.     *)

\* The configurations bluecatmicetro.NewDNSProviderConfig accepts.
AcceptedBcConfigs == {c \in BcConfigs : BluecatNewDNSProviderConfig(c).provider}

\* The backend: with or without the session endpoint /v2/micetro/sessions,
\* and either healthy (its zone and record endpoints answer every request
\* with success) or answering anything.
MicServers == [sessions : BOOLEAN, healthy : BOOLEAN]

\* Zone catalogs the backend lists and challenge names.
MicCatalogs == {<<>>, <<ExampleCom \o Dot>>, <<ExampleCom \o Dot, DevExampleCom \o Dot>>}
AcmeLabel == <<"_", "a", "c", "m", "e">>
MicFqdns ==
    {AcmeLabel \o Dot \o XDevExampleCom \o Dot,
     AcmeLabel \o Dot \o <<"o", "r", "g">> \o Dot}

\* What the login endpoint answers: any response, or a not-found status
\* when the backend has no session endpoint.
MicLoginResponses ==
    IF mServer.sessions THEN LoginResponses
    ELSE {r \in LoginResponses :
            ~r.transportErr /\ r.status = StatusNotFound /\ ~r.decodable /\ r.session = ""}

\* What the zone and record endpoints may answer.
MicResponses ==
    [transportErr : {TRUE}, status : {200}, decodable : {TRUE}]
    \cup [transportErr : {FALSE},
          status : {200, 299, StatusMultipleChoices, StatusNotFound, 500},
          decodable : BOOLEAN]

MicAnswers ==
    IF mServer.healthy
    THEN {r \in MicResponses : ~r.transportErr /\ r.status = 200 /\ r.decodable}
    ELSE MicResponses

NoResponse == [transportErr |-> FALSE, status |-> 0, decodable |-> FALSE]

\* The errors an operation returns; "" is nil.
ErrZoneNotFound == "bluecatmicetro: zone not found"
ErrLogin == "micetro: login failed"
ErrTransport == "transport error"
ErrListZones == "micetro: listZones failed"
ErrDecode == "decode error"
ErrAddTXTRecord == "micetro: AddTXTRecord failed"
ErrDeleteTXTRecord == "micetro: DeleteTXTRecord failed"

\* listZones on the response of its request (client.go:138-159): the error,
\* "" when the zones are returned.
ListZonesError(resp) ==
    IF resp.transportErr THEN ErrTransport
    ELSE IF resp.status >= StatusMultipleChoices THEN ErrListZones
    ELSE IF ~resp.decodable THEN ErrDecode
    ELSE ""

\* AddTXTRecord on the response of its request (client.go:191-202)
AddTXTRecordError(resp) ==
    IF resp.transportErr THEN ErrTransport
    ELSE IF resp.status >= StatusMultipleChoices THEN ErrAddTXTRecord
    ELSE ""

\* DeleteTXTRecord on the response of its request (client.go:216-227)
DeleteTXTRecordErrorOnNotFound(resp) ==
    IF resp.transportErr THEN ErrTransport
    ELSE IF resp.status >= StatusMultipleChoices THEN ErrDeleteTXTRecord
    ELSE ""
DeleteTXTRecordError(resp) ==
    IF resp.transportErr THEN ErrTransport
    ELSE IF resp.status >= StatusMultipleChoices /\ resp.status # StatusNotFound
    THEN ErrDeleteTXTRecord
    ELSE ""

\* zoneName == "" (dns.go:72, 83)
ZoneUnresolvedNever(zoneName) == FALSE
ZoneUnresolved(zoneName) == zoneName = EmptyStr

ProviderKinds == {"Present", "CleanUp"}
ClientKinds == {"AddTXTRecord", "DeleteTXTRecord"}

IdleMicOp ==
    [pc |-> "idle", kind |-> "none", err |-> "", sent |-> <<>>,
     listErr |-> "", resp |-> NoResponse]

\* Present or CleanUp of the provider is called (dns.go:68-71, 79-82):
\* FindBestZoneForFQDN calls listZones, which calls doRequest.
MicProviderStart(kind) ==
    /\ UNCHANGED <<clientVars, cfgVars, provVars>>
    /\ mOp.pc = "idle"
    /\ mOps < MaxMicOps
    /\ mOps' = mOps + 1
    /\ mOp' = [IdleMicOp EXCEPT !.pc = "listLogin", !.kind = kind]
    /\ zResult' = NotCalled
    /\ UNCHANGED <<zNames, zFqdn, mServer>>

\* AddTXTRecord or DeleteTXTRecord of the client is called directly
\* (part_002:47-57): it builds its request and calls doRequest.
MicClientStart(kind) ==
    /\ UNCHANGED <<clientVars, cfgVars, provVars>>
    /\ mOp.pc = "idle"
    /\ mOps < MaxMicOps
    /\ mOps' = mOps + 1
    /\ mOp' = [IdleMicOp EXCEPT !.pc = "recLogin", !.kind = kind]
    /\ zResult' = NotCalled
    /\ UNCHANGED <<zNames, zFqdn, mServer>>

\* listZones has returned error e, after the requests in sent:
\* FindBestZoneForFQDN returns "", "" (part_001:11-12, 26) and the provider
\* reports that no zone was found (dns.go:72-74, 83-85).
ListingFailed(e, sent) ==
    LET r == FindBestZoneForFQDN(TRUE, zNames, zFqdn)
    IN  /\ zResult' = [called |-> TRUE, listErr |-> TRUE, zone |-> r[1], rel |-> r[2]]
        /\ mOp' = [mOp EXCEPT !.pc = IF ZoneUnresolved(r[1]) THEN "ret" ELSE "recLogin",
                              !.listErr = e,
                              !.sent = sent,
                              !.err = IF ZoneUnresolved(r[1]) THEN ErrZoneNotFound ELSE ""]

\* login inside doRequest (client.go:45-99, 106-108), run to its end: with a
\* cached session no exchange is sent; otherwise the exchange is sent and
\* its answer decides.
MicLogin ==
    /\ UNCHANGED <<cfgVars, provVars>>
    /\ mOp.pc \in {"listLogin", "recLogin"}
    /\ IF AlreadyLoggedIn
       THEN /\ mOp' = [mOp EXCEPT !.pc = IF @ = "listLogin" THEN "listSend" ELSE "recSend"]
            /\ UNCHANGED <<sessionKey, loginCount, loginFailures, zResult>>
       ELSE /\ loginCount' = loginCount + 1
            /\ \E resp \in MicLoginResponses :
                 IF LoginResponseOK(resp)
                 THEN /\ sessionKey' = resp.session
                      /\ mOp' = [mOp EXCEPT !.pc = IF @ = "listLogin" THEN "listSend" ELSE "recSend",
                                            !.sent = Append(@, "login")]
                      /\ UNCHANGED <<loginFailures, zResult>>
                 ELSE /\ loginFailures' = loginFailures + 1
                      /\ UNCHANGED sessionKey
                      /\ IF mOp.pc = "listLogin"
                         THEN ListingFailed(ErrLogin, Append(mOp.sent, "login"))
                         ELSE /\ mOp' = [mOp EXCEPT !.pc = "ret", !.err = ErrLogin,
                                                    !.sent = Append(@, "login")]
                              /\ UNCHANGED zResult
    /\ UNCHANGED <<mu, pc, sentAuth, result, calls, pendingAtFailure>>
    /\ UNCHANGED <<zNames, zFqdn, mServer, mOps>>

\* The zone listing request and what FindBestZoneForFQDN and the provider do
\* with its answer (client.go:138-159, part_001:9-27, dns.go:71-74, 82-85).
MicListZones ==
    /\ UNCHANGED <<clientVars, cfgVars, provVars>>
    /\ mOp.pc = "listSend"
    /\ \E resp \in MicAnswers :
         LET e == ListZonesError(resp)
             r == FindBestZoneForFQDN(e # "", zNames, zFqdn)
         IN  /\ zResult' = [called |-> TRUE, listErr |-> e # "",
                            zone |-> r[1], rel |-> r[2]]
             /\ mOp' = [mOp EXCEPT !.pc = IF ZoneUnresolved(r[1]) THEN "ret" ELSE "recLogin",
                                   !.sent = Append(@, "listZones"),
                                   !.listErr = e,
                                   !.err = IF ZoneUnresolved(r[1]) THEN ErrZoneNotFound ELSE ""]
    /\ UNCHANGED <<zNames, zFqdn, mServer, mOps>>

\* The create or delete request and its answer (client.go:191-202, 216-227;
\* dns.go:76, 87).
MicRecordCall ==
    /\ UNCHANGED <<clientVars, cfgVars, provVars>>
    /\ mOp.pc = "recSend"
    /\ \E resp \in MicAnswers :
         mOp' = [mOp EXCEPT !.pc = "ret",
                            !.resp = resp,
                            !.sent = Append(@, IF mOp.kind \in {"Present", "AddTXTRecord"}
                                               THEN "create" ELSE "delete"),
                            !.err = IF mOp.kind \in {"Present", "AddTXTRecord"}
                                    THEN AddTXTRecordError(resp)
                                    ELSE DeleteTXTRecordError(resp)]
    /\ UNCHANGED <<zNames, zFqdn, zResult, mServer, mOps>>

\* The caller takes the result.
MicReturn ==
    /\ UNCHANGED <<clientVars, cfgVars, provVars>>
    /\ mOp.pc = "ret"
    /\ mOp' = [mOp EXCEPT !.pc = "idle"]
    /\ UNCHANGED <<zNames, zFqdn, zResult, mServer, mOps>>

\* NewDNSProviderConfig has accepted the configuration and NewClient has
\* built the client (dns.go:52-66, client.go:27-39): no session.
InitMicetro ==
    /\ bcConfig \in AcceptedBcConfigs
    /\ bcResult = [called |-> TRUE, err |-> "", provider |-> TRUE]
    /\ ovhConfig = CHOOSE c \in OvhConfigs : c.isNil
    /\ ovhResult = NotCalled
    /\ zNames \in MicCatalogs
    /\ zFqdn \in MicFqdns
    /\ zResult = NotCalled
    /\ mServer \in MicServers
    /\ mOp = IdleMicOp
    /\ mOps = 0

IdleMicetro ==
    /\ mServer = [sessions |-> FALSE, healthy |-> FALSE]
    /\ mOp = [IdleMicOp EXCEPT !.pc = "off"]
    /\ mOps = 0

NextMicetro ==
    \/ \E kind \in ProviderKinds : MicProviderStart(kind)
    \/ \E kind \in ClientKinds : MicClientStart(kind)
    \/ MicLogin
    \/ MicListZones
    \/ MicRecordCall
    \/ MicReturn

-----------------------------------------------------------------------------
(* Specifications *)

\* The session client under concurrent callers.
Init ==
    InitClient /\ IdleZone /\ IdleConfig /\ IdleProviders /\ IdleMicetro

Next == NextClient

Spec == Init /\ [][Next]_vars

\* The zone resolver on every bounded catalog and FQDN.
InitZoneSpec ==
    IdleClient /\ InitZone /\ IdleConfig /\ IdleProviders /\ IdleMicetro

NextZone == Resolve

SpecZone == InitZoneSpec /\ [][NextZone]_vars

\* Provider construction on every configuration.
InitConfigSpec ==
    IdleClient /\ IdleZone /\ InitConfig /\ IdleProviders /\ IdleMicetro

NextConfig == OvhConstruct \/ BluecatConstruct

SpecConfig == InitConfigSpec /\ [][NextConfig]_vars

\* The DigitalOcean and OVH providers under two concurrent challenge flows.
InitProvidersSpec ==
    IdleClient /\ IdleZone /\ IdleConfig /\ InitProviders /\ flows = Procs
    /\ IdleMicetro

SpecProviders == InitProvidersSpec /\ [][NextProviders]_vars

\* The same providers driven by one flow: its operations follow one another.
InitSequentialSpec ==
    IdleClient /\ IdleZone /\ IdleConfig /\ InitProviders /\ flows = {1}
    /\ IdleMicetro

SpecSequential == InitSequentialSpec /\ [][NextProviders]_vars

\* The Bluecat Micetro provider and its client, one operation at a time.
InitMicetroSpec == IdleClient /\ InitMicetro /\ IdleProviders

SpecMicetro == InitMicetroSpec /\ [][NextMicetro]_vars

\* Every provider, each driven by one flow.
InitAnyProviderSpec == InitSequentialSpec \/ InitMicetroSpec

NextAnyProvider == NextProviders \/ NextMicetro

SpecAnyProvider == InitAnyProviderSpec /\ [][NextAnyProvider]_vars

-----------------------------------------------------------------------------
(* Claims about the session client *)

\* C1: as long as the backend has accepted every login exchange, concurrent
\* first-time callers cause exactly one login exchange, and every request
\* sent carries the one cached session credential.
C1_SingleLoginSharedSession ==
    loginFailures = 0 =>
        /\ loginCount <= 1
        /\ \A c \in Callers :
             pc[c] \in {"send", "await"} \/ sentAuth[c] # NoAuth => loginCount = 1
        /\ \A c \in Callers :
             sentAuth[c] # NoAuth => sentAuth[c] = sessionKey /\ sessionKey \in Sessions

\* Two first calls overlap, both have sent their request, one login was sent.
C1_Witness ==
    /\ loginFailures = 0
    /\ loginCount = 1
    /\ \E c, d \in Callers :
         /\ c # d
         /\ calls[c] = 1 /\ calls[d] = 1
         /\ pc[c] = "await" /\ pc[d] = "await"
         /\ sentAuth[c] = sentAuth[d] /\ sentAuth[c] \in Sessions

\* C10: a caller that was waiting on the session lock when a login exchange
\* failed fails too, and no login exchange is sent on its behalf.
C10_WaitersFailWithoutLogin ==
    \A c \in Callers :
        pendingAtFailure[c] =>
            /\ pc[c] \notin {"exchange", "send", "await"}
            /\ pc[c] = "ret" => result[c] = "loginError"


-----------------------------------------------------------------------------
(* Claims about the zone resolver *)

\* z ends s: some split of s leaves z as its tail.
IsSuffixOf(z, s) == \E k \in 0..Len(s) : SubSeq(s, k + 1, Len(s)) = z

\* The catalog as a set of normalized zones, and the normalized FQDN.
CatalogSet == {TrimSuffix(zNames[i], Dot) : i \in 1..Len(zNames)}
NormalFqdn == TrimSuffix(zFqdn, Dot)

\* The longest catalog entry that is a suffix of the FQDN ("" when none is).
LongestSuffixZone ==
    LET S == {z \in CatalogSet : IsSuffixOf(z, NormalFqdn)}
    IN  IF S = {} THEN EmptyStr
        ELSE CHOOSE z \in S : \A y \in S : Len(y) <= Len(z)

\* C2: FindBestZoneForFQDN returns the longest catalog entry that is a suffix
\* of the FQDN (root dot stripped), whatever the order of the catalog; catalog
\* {example.com, dev.example.com} and x.dev.example.com give zone
\* dev.example.com and label x.
C2_LongestSuffixWins ==
    (zResult.called /\ ~zResult.listErr) =>
        /\ zResult.zone = LongestSuffixZone
        /\ \A perm \in Permutations(1..Len(zNames)) :
             FindBestZoneForFQDN(FALSE, [i \in 1..Len(zNames) |-> zNames[perm[i]]], zFqdn)
                = <<zResult.zone, zResult.rel>>
        /\ (CatalogSet = {ExampleCom, DevExampleCom} /\ NormalFqdn = XDevExampleCom) =>
             (zResult.zone = DevExampleCom /\ zResult.rel = <<"x">>)

\* The example, with the shorter zone listed first.
C2_Witness ==
    /\ zResult.called /\ ~zResult.listErr
    /\ zNames = <<ExampleCom, DevExampleCom>>
    /\ zFqdn = XDevExampleCom
    /\ zResult.zone = DevExampleCom
    /\ zResult.rel = <<"x">>

\* C3: an FQDN equal to a catalog zone (with or without the root dot)
\* resolves to that zone with the apex sentinel "@" as label.
C3_ApexSentinel ==
    (zResult.called /\ ~zResult.listErr /\ NormalFqdn \in CatalogSet) =>
        (zResult.zone = NormalFqdn /\ zResult.rel = Apex)
-----------------------------------------------------------------------------
(* Claims about provider construction *)

\* The authentication schemes an OVH configuration selects.
OvhSchemes(c) ==
    {s \in {"appkey", "oauth2", "token"} :
        \/ s = "appkey" /\ (c.ApplicationKey # "" \/ c.ApplicationSecret # ""
                            \/ c.ConsumerKey # "")
        \/ s = "oauth2" /\ ~c.OAuth2Config.isNil
        \/ s = "token" /\ c.AccessToken # ""}

MultipleAuthErrors == {ErrOvhAll, ErrOvhOAuthToken, ErrOvhKeyOAuth, ErrOvhKeyToken}

\* C8: ovh.NewDNSProviderConfig fails with a multiple-authentication error,
\* and builds no provider, exactly when the configuration selects two or
\* three authentication schemes.
C8_OvhRejectsMultipleAuth ==
    (ovhResult.called /\ ~ovhConfig.isNil) =>
        /\ Cardinality(OvhSchemes(ovhConfig)) >= 2 =>
             (ovhResult.err \in MultipleAuthErrors /\ ~ovhResult.provider)
        /\ Cardinality(OvhSchemes(ovhConfig)) <= 1 =>
             ovhResult.err \notin MultipleAuthErrors

\* A configuration with only a consumer key and an access token is rejected.
C8_Witness ==
    /\ ovhResult.called /\ ~ovhConfig.isNil
    /\ ovhConfig.ApplicationKey = "" /\ ovhConfig.ConsumerKey # ""
    /\ ovhConfig.AccessToken # "" /\ ovhConfig.OAuth2Config.isNil
    /\ ovhResult.err = ErrOvhKeyToken /\ ~ovhResult.provider

\* C9: bluecatmicetro.NewDNSProviderConfig rejects a configuration that sets
\* the API key together with a username and a password.
C9_BluecatRejectsBothSchemes ==
    (bcResult.called /\ bcConfig.APIKey # "" /\ bcConfig.Username # ""
        /\ bcConfig.Password # "") =>
        (bcResult.err # "" /\ ~bcResult.provider)

-----------------------------------------------------------------------------
(* Claims about Present and CleanUp of the DigitalOcean and OVH providers,   *)
(* for operations that follow one another (SpecSequential)                    *)

\* The operation of p has returned nil.
ReturnedOK(p, kind) ==
    proc[p].pc = "ret" /\ proc[p].kind = kind /\ ~proc[p].err

\* The operation before the current one of p was a successful kind on the
\* same token.
After(p, kind) ==
    proc[p].prev = [kind |-> kind, token |-> proc[p].token, ok |-> TRUE]

\* The TXT records of the backend at the challenge name of token t.
ChallengeRecords(t) ==
    {r \in backend : r.type = "TXT" /\ r.sub = Challenge(t).sub
                     /\ r.zone = Challenge(t).zone}

\* C4: DigitalOcean: after a successful Present the map holds, under the
\* token, the identifier the backend returned for the record it created;
\* after the successful CleanUp that follows, the entry is gone and no
\* record of the backend has that identifier.
C4_DoPresentTracksCleanUpRemoves ==
    \A p \in Procs :
        provider = DigitalOcean =>
            /\ ReturnedOK(p, "Present") =>
                 /\ proc[p].token \in DOMAIN recordIDs
                 /\ recordIDs[proc[p].token] = proc[p].respID
                 /\ \E r \in ChallengeRecords(proc[p].token) : r.id = proc[p].respID
            /\ (ReturnedOK(p, "CleanUp") /\ After(p, "Present")) =>
                 /\ proc[p].ok
                 /\ proc[p].token \notin DOMAIN recordIDs
                 /\ \A r \in backend : r.id # proc[p].recordID

\* A CleanUp that followed a Present has deleted the tracked record.
C4_Witness ==
    \E p \in Procs :
        /\ provider = DigitalOcean
        /\ ReturnedOK(p, "CleanUp") /\ After(p, "Present")
        /\ proc[p].trackedDel = 1
        /\ proc[p].recordID \in {r.id : r \in proc[p].deleted}

\* C5: OVH: the entry a successful Present wrote for a token is removed by
\* the successful CleanUp for the same token that follows it.
C5_OvhCleanUpRemovesEntry ==
    \A p \in Procs :
        (provider = Ovh /\ ReturnedOK(p, "CleanUp") /\ After(p, "Present")) =>
            proc[p].token \notin DOMAIN recordIDs

\* C6: a CleanUp that directly follows a successful CleanUp for the same
\* token, with a backend that answers every call, returns success, finds no
\* tracked entry, issues no tracked delete and deletes nothing in its scan.
C6_SecondCleanUpIsNoOp ==
    \A p \in Procs :
        (proc[p].pc = "ret" /\ proc[p].kind = "CleanUp" /\ ~proc[p].faulted
            /\ After(p, "CleanUp")) =>
            /\ ~proc[p].err
            /\ ~proc[p].tracked
            /\ proc[p].token \notin DOMAIN recordIDs
            /\ proc[p].trackedDel = 0
            /\ proc[p].scanDel = 0

\* C7: a CleanUp that found no entry for its token deletes only TXT records
\* at the challenge name in the resolved zone, and when it returns success
\* no such record is left in the backend.
C7_FallbackScanDeletesMatches ==
    \A p \in Procs :
        (proc[p].kind = "CleanUp" /\ ~proc[p].tracked) =>
            /\ \A r \in proc[p].deleted :
                 /\ r.type = "TXT"
                 /\ r.sub = Challenge(proc[p].token).sub
                 /\ r.zone = Challenge(proc[p].token).zone
            /\ SeedRecords \subseteq backend
            /\ ReturnedOK(p, "CleanUp") => ChallengeRecords(proc[p].token) = {}

\* A CleanUp without a tracked entry has deleted the record an earlier
\* process left behind, and the other records are still there.
C7_Witness ==
    \E p \in Procs :
        /\ ReturnedOK(p, "CleanUp") /\ ~proc[p].tracked
        /\ proc[p].prev = NoOp
        /\ OrphanRecord \in proc[p].deleted
        /\ SeedRecords \subseteq backend

-----------------------------------------------------------------------------
(* Further claims about the session client and the zone resolver *)

\* The callers whose login exchange is in flight.
InExchange == {c \in Callers : pc[c] = "exchange"}

\* C17: at most one login exchange is in flight on a Client at any time,
\* whatever the number of concurrent callers and whether earlier logins
\* succeeded or failed.
C17_OneLoginInFlight ==
    /\ Cardinality(InExchange) <= 1
    /\ \A c \in InExchange : mu = c

\* After a failed login, one caller's exchange is in flight while another
\* caller waits for the mutex.
C17_Witness ==
    /\ loginFailures >= 1
    /\ \E c, d \in Callers :
         c # d /\ pc[c] = "exchange" /\ pc[d] = "lock"

\* C18: when FindBestZoneForFQDN returns a zone and a label other than the
\* apex sentinel, label + "." + zone is the normalized FQDN: the zone ends
\* the FQDN on a label boundary.
C18_LabelDotZoneIsFqdn ==
    (zResult.called /\ ~zResult.listErr /\ zResult.zone # EmptyStr
        /\ zResult.rel # Apex) =>
        zResult.rel \o Dot \o zResult.zone = NormalFqdn

-----------------------------------------------------------------------------
(* Further claims about Present and CleanUp of the DigitalOcean and OVH      *)
(* providers                                                                  *)

\* The positions at which a call reads, writes or deletes a map entry.
MapAccess == {"store", "read", "delete"}

\* The positions of the DigitalOcean CleanUp after its read of the map and
\* before its return.
AfterRead == {"remove", "lockDelete", "delete", "list", "loop"}

\* The identifier of the first record a Present creates.
FirstCreatedID == OrphanRecord.id + 1

\* C14: every read, write and delete of the map is done by the holder of
\* recordIDsMu, and by one call at a time; a CleanUp that starts after a
\* Present for its token has stored the identifier, on another flow, observes
\* that identifier; successful Presents for distinct tokens each leave their
\* own entry.
C14_MapLinearizableNoLostUpdate ==
    /\ \A p \in Procs : proc[p].pc \in MapAccess <=> recordIDsMu = p
    /\ \A p, q \in Procs :
         (/\ p # q /\ ops = 2 /\ provider = DigitalOcean
          /\ proc[q].pc = "idle"
          /\ proc[q].prev = [kind |-> "Present", token |-> proc[p].token, ok |-> TRUE]
          /\ proc[p].kind = "CleanUp" /\ proc[p].tracked
          /\ proc[p].pc \in AfterRead) =>
            (proc[p].ok /\ proc[p].recordID = FirstCreatedID)
    /\ \A p, q \in Procs :
         (/\ ops = 2
          /\ ReturnedOK(p, "Present") /\ ReturnedOK(q, "Present")
          /\ proc[p].token # proc[q].token) =>
            /\ {proc[p].token, proc[q].token} \subseteq DOMAIN recordIDs
            /\ recordIDs[proc[p].token] = proc[p].respID
            /\ recordIDs[proc[q].token] = proc[q].respID
            /\ proc[p].respID # proc[q].respID

\* Two flows have each completed a Present for their own token, and one of
\* them waited for the mutex while the other held it.
C14_Witness ==
    /\ ops = 2
    /\ \E p, q \in Procs :
         /\ ReturnedOK(p, "Present") /\ ReturnedOK(q, "Present")
         /\ proc[p].token # proc[q].token
         /\ proc[p].respID = FirstCreatedID
         /\ proc[q].respID = FirstCreatedID + 1
         /\ DOMAIN recordIDs = Tokens

\* A CleanUp on one flow has read the entry a Present on the other flow
\* wrote.
C14_ReadWitness ==
    \E p, q \in Procs :
        /\ p # q /\ ops = 2 /\ provider = DigitalOcean
        /\ proc[q].pc = "idle" /\ proc[q].prev.kind = "Present" /\ proc[q].prev.ok
        /\ proc[p].kind = "CleanUp" /\ proc[p].token = proc[q].prev.token
        /\ proc[p].pc = "remove" /\ proc[p].recordID = FirstCreatedID

\* C15: in the OVH Present a record creation that succeeded is followed by
\* one zone refresh call before Present returns; when that call fails
\* Present returns an error, the record stays in the backend and is not
\* tracked; when it succeeds Present goes on to store the identifier.
C15_OvhRefreshAfterCreate ==
    \A p \in Procs :
        (provider = Ovh /\ proc[p].kind = "Present") =>
            /\ proc[p].respID = 0 => proc[p].refreshCalls = 0
            /\ proc[p].respID # 0 =>
                 proc[p].pc \in {"refresh", "lockStore", "store", "ret"}
            /\ proc[p].pc = "refresh" => proc[p].refreshCalls = 0
            /\ proc[p].pc \in {"lockStore", "store", "ret"} /\ proc[p].respID # 0 =>
                 /\ proc[p].refreshCalls = 1
                 /\ proc[p].faulted =>
                      /\ proc[p].pc = "ret" /\ proc[p].err
                      /\ \E r \in backend : r.id = proc[p].respID
                      /\ \A t \in DOMAIN recordIDs : recordIDs[t] # proc[p].respID
                 /\ ~proc[p].faulted => ~proc[p].err

\* An OVH Present whose record was created has returned the error of the
\* failed refresh.
C15_Witness ==
    \E p \in Procs :
        /\ provider = Ovh /\ proc[p].kind = "Present" /\ proc[p].pc = "ret"
        /\ proc[p].respID # 0 /\ proc[p].refreshCalls = 1
        /\ proc[p].faulted /\ proc[p].err
        /\ \E r \in backend : r.id = proc[p].respID

\* C19: a CleanUp whose backend calls are all answered, some of them with
\* not-found because a concurrent CleanUp has already deleted the record,
\* returns success.
C19_ConcurrentCleanUpsSucceed ==
    \A p \in Procs :
        (proc[p].pc = "ret" /\ proc[p].kind = "CleanUp" /\ ~proc[p].faulted) =>
            ~proc[p].err

\* C20: after a Present whose create-record call succeeded the map holds
\* the returned identifier under the token.
C20_CreatedRecordsAreTracked ==
    \A p \in Procs :
        (proc[p].pc = "ret" /\ proc[p].kind = "Present" /\ proc[p].respID # 0) =>
            /\ proc[p].token \in DOMAIN recordIDs
            /\ recordIDs[proc[p].token] = proc[p].respID

-----------------------------------------------------------------------------
(* Claims about the Bluecat Micetro provider and its client *)

\* No catalog entry is a suffix of the target name.
NoZoneMatches == \A z \in CatalogSet : ~IsSuffixOf(z, NormalFqdn)

\* C11: Present and CleanUp report zone-not-found exactly when the catalog
\* was fetched and no entry is a suffix of the target name; a failure to
\* fetch the catalog is returned as that failure, not as zone-not-found.
C11_ZoneNotFoundOnlyForFetchedCatalog ==
    (mOp.pc = "ret" /\ mOp.kind \in ProviderKinds) =>
        /\ mOp.err = ErrZoneNotFound <=> (mOp.listErr = "" /\ NoZoneMatches)
        /\ mOp.listErr # "" => mOp.err = mOp.listErr

\* C12: when zone resolution fails in Present, Present returns an error in
\* that step, no create-record or refresh call is sent, and the backend and
\* the record-ID map stay as they are.
C12_NoCreateWithoutZone ==
    [][/\ \A p \in Procs :
            (proc[p].pc = "idle" /\ proc'[p].pc = "ret" /\ proc'[p].kind = "Present") =>
                /\ proc'[p].err
                /\ proc'[p].respID = 0 /\ proc'[p].refreshCalls = 0
                /\ backend' = backend /\ nextID' = nextID
                /\ recordIDs' = recordIDs
       /\ (/\ mOp'.kind = "Present" /\ mOp.pc # "ret" /\ mOp'.pc = "ret"
           /\ zResult'.called /\ zResult'.zone = EmptyStr) =>
                /\ mOp'.err # ""
                /\ \A i \in 1..Len(mOp'.sent) : mOp'.sent[i] # "create"
      ]_vars

\* A Micetro Present has fetched the catalog, found no zone for the name and
\* returned the error after the login and the listing only.
C12_Witness ==
    /\ mOp.pc = "ret" /\ mOp.kind = "Present"
    /\ zResult.called /\ ~zResult.listErr /\ zResult.zone = EmptyStr
    /\ mOp.err = ErrZoneNotFound
    /\ mOp.sent = <<"login", "listZones">>

\* The delete request of the operation has been answered with a status.
DeleteAnswered ==
    /\ mOp.pc = "ret" /\ mOp.kind \in {"CleanUp", "DeleteTXTRecord"}
    /\ mOp.sent # <<>> /\ mOp.sent[Len(mOp.sent)] = "delete"
    /\ ~mOp.resp.transportErr

\* C13: DeleteTXTRecord returns nil when the delete is answered with the
\* not-found status or a status below 300, and an error for every other
\* status.
C13_DeleteNotFoundIsSuccess ==
    DeleteAnswered =>
        (mOp.err = "" <=>
            (mOp.resp.status = StatusNotFound \/ mOp.resp.status < StatusMultipleChoices))

\* DeleteTXTRecord has returned nil on a not-found answer.
C13_Witness ==
    /\ DeleteAnswered /\ mOp.kind = "DeleteTXTRecord"
    /\ mOp.resp.status = StatusNotFound
    /\ mOp.err = ""

\* The configuration carries an API key and neither username nor password.
ApiKeyOnly ==
    bcConfig.APIKey # "" /\ bcConfig.Username = "" /\ bcConfig.Password = ""

\* C16: the client of an API-key-only configuration sends no login exchange,
\* and its AddTXTRecord and DeleteTXTRecord succeed against a healthy backend
\* that has no session endpoint.
C16_ApiKeyClientSendsNoLogin ==
    (ApiKeyOnly /\ mOp.pc # "off") =>
        /\ loginCount = 0
        /\ (mOp.pc = "ret" /\ mOp.kind \in ClientKinds
                /\ ~mServer.sessions /\ mServer.healthy) =>
             mOp.err = ""

-----------------------------------------------------------------------------
(* Claims about the mutex of the record-ID map and the backend calls *)

\* The positions at which a call issues a backend call next.
BackendCall ==
    {"add", "remove", "list", "loop", "post", "refresh", "listIds", "getRecord"}

\* The positions at which a call waits for recordIDsMu.
LockWait == {"lockStore", "lockRead", "lockDelete"}

\* C21: the holder of recordIDsMu is never at a backend call, so a flow that
\* is in a backend call holds no lock, and a call waiting for the mutex while
\* the other flow is in a backend call can take it at once.
C21_NoBackendCallUnderLock ==
    /\ \A p \in Procs : recordIDsMu = p => proc[p].pc \notin BackendCall
    /\ \A p, q \in Procs :
         (proc[p].pc \in BackendCall /\ proc[q].pc \in LockWait) =>
            ENABLED LockRecordIDs(q)

\* One flow is in a backend call for its token while the other flow updates
\* the map for another token.
C21_Witness ==
    \E p, q \in Procs :
        /\ proc[p].pc \in BackendCall /\ proc[q].pc = "store"
        /\ proc[p].token # proc[q].token
        /\ recordIDsMu = q

-----------------------------------------------------------------------------
(* Claims about the lifetime of the session credential *)

\* C22: once a login exchange has succeeded the cached session is the one
\* that exchange returned, it never changes, and no further login exchange
\* is sent, whatever the backend answers to the authenticated calls.
C22_SessionKeptForLifetime ==
    [][/\ sessionKey # "" =>
            /\ sessionKey' = sessionKey
            /\ loginCount' = loginCount
            /\ \A c \in Callers : pc'[c] # "exchange"
       /\ (sessionKey = "" /\ sessionKey' # "") =>
            /\ sessionKey' \in Sessions
            /\ \E c \in Callers : pc[c] = "exchange" /\ pc'[c] = "send" /\ mu = c
      ]_vars

\* After the one login, a call has been answered with an authorization
\* failure and a second call of another caller carries the same session.
C22_Witness ==
    /\ loginCount = 1 /\ sessionKey \in Sessions
    /\ \E c, d \in Callers :
         /\ c # d
         /\ pc[d] = "ret" /\ result[d] = "status401"
         /\ calls[c] = 2 /\ pc[c] = "await" /\ sentAuth[c] = sessionKey

\* C23: a failed login exchange leaves the cache empty and ends the call
\* with the login error, without an authenticated request; no request is
\* ever sent without a session; a call that takes the lock while the cache is
\* empty sends a new login exchange.
C23_FailedLoginLeavesNoSession ==
    /\ [](\A c \in Callers :
            /\ pc[c] \in {"send", "await"} => sessionKey \in Sessions
            /\ sentAuth[c] \in Sessions \cup {NoAuth}
            /\ pc[c] = "exchange" => sessionKey = "")
    /\ [][/\ loginFailures' # loginFailures =>
               /\ sessionKey' = ""
               /\ sentAuth' = sentAuth
               /\ \E c \in Callers :
                    /\ pc[c] = "exchange" /\ pc'[c] = "ret"
                    /\ result'[c] = "loginError"
          /\ \A c \in Callers :
               (pc[c] = "lock" /\ pc'[c] # "lock" /\ sessionKey = "") =>
                    (pc'[c] = "exchange" /\ loginCount' = loginCount + 1)
         ]_vars

\* A caller whose first call failed at login is in the login exchange of its
\* second call.
C23_Witness ==
    \E c \in Callers :
        /\ calls[c] = 2 /\ pc[c] = "exchange"
        /\ loginFailures = 1 /\ loginCount = 2
        /\ \A d \in Callers \ {c} : calls[d] = 0

\* C24: a CleanUp that follows the successful Present of another token
\* deletes no record that is tracked under that other token, and leaves its
\* entry in place.
C24_CleanUpSparesOtherTokens ==
    \A p \in Procs : \A t \in Tokens \ {proc[p].token} :
        (proc[p].kind = "CleanUp"
            /\ proc[p].prev = [kind |-> "Present", token |-> t, ok |-> TRUE]) =>
            /\ t \in DOMAIN recordIDs
            /\ \A r \in proc[p].deleted : r.id # recordIDs[t]
            /\ \E r \in backend : r.id = recordIDs[t]

-----------------------------------------------------------------------------
(* Termination of the calls of the session client *)

\* Every HTTP exchange completes, every caller that is not blocked goes on,
\* and a caller waiting for the mutex gets it once it is free often enough
\* (sync.Mutex hands the lock to a starving waiter).
Fairness ==
    \A c \in Callers :
        /\ SF_vars(LoginCached(c))
        /\ SF_vars(LoginSend(c))
        /\ WF_vars(LoginReceive(c))
        /\ WF_vars(SendRequest(c))
        /\ WF_vars(ReceiveResponse(c))
        /\ WF_vars(Return(c))

SpecLive == Init /\ [][Next]_vars /\ Fairness

\* C25: every caller blocked on the session lock eventually gets past it,
\* and every call of doRequest eventually returns, whatever logins fail.
C25_CallsTerminate ==
    \A c \in Callers :
        /\ (pc[c] = "lock") ~> (pc[c] # "lock")
        /\ (pc[c] \in {"lock", "exchange", "send", "await"}) ~> (pc[c] = "ret")

\* A login has failed and released the mutex while another caller waits for
\* it.
C25_Witness ==
    \E c, d \in Callers :
        /\ pc[c] = "ret" /\ result[c] = "loginError"
        /\ pc[d] = "lock" /\ mu = NoHolder

====
